---- MODULE Spec2Model ----
(***************************************************************************)
(* AVR radiologist alert: monitor.py (login navigator, worklist parser,    *)
(* alert decision, status.json) and scripts/send_telegram.py (notifier).   *)
(*                                                                         *)
(* Text is modelled as a sequence of words (the string is the words joined *)
(* by single blanks); separators such as "," are words of their own.  A    *)
(* substring test `k in s` is a test on words: equal words, or one of the  *)
(* listed proper prefix / suffix / infix pairs of the vocabulary.          *)
(***************************************************************************)
EXTENDS Integers, Sequences, FiniteSets, TLC

(* ------------------------------ bounds --------------------------------- *)

\* rows of a generated worklist table (besides its header row)
MaxRows == 2

(* ------------------------- program constants --------------------------- *)

DEFAULT_THRESHOLD == 20
\* len(WORKLIST_PATHS), len(INDEX_CANDIDATES), len(LOGIN_CANDIDATES)
NumWorklistPaths == 8
NumIndexCandidates == 4
NumLoginCandidates == 7
max_depth == 3
max_visits == 60
\* rows[:3]: the rows of a table looked at for its header
HeaderRows == 3
\* "many data rows have at least 7 columns": the code's cut is 5
MinCells == 5
\* the age below which a row is not yet counted, and the bucket bounds
Age60 == 60
Age90 == 90
Age120 == 120

(* ------------------------------- text ---------------------------------- *)

\* k is a proper prefix of w (character level), for the words used here
ProperPrefix ==
    { <<"Request", "Requested">>, <<"request", "requested">>,
      <<"Mod", "Modality">>, <<"mod", "modality">>,
      <<"Date", "DateTime">>, <<"date", "datetime">>,
      <<"CT", "CTA">>, <<"MR", "MRI">>, <<"MR", "MRN">> }

\* k is a proper suffix of w
ProperSuffix ==
    { <<"Time", "DateTime">>, <<"time", "datetime">> }

\* k occurs strictly inside w
ProperInfix ==
    { <<"date", "updated">> }

PreW(k, w) == k = w \/ <<k, w>> \in ProperPrefix
SufW(k, w) == k = w \/ <<k, w>> \in ProperSuffix
SubW(k, w) == PreW(k, w) \/ SufW(k, w) \/ <<k, w>> \in ProperInfix

\* An operand is evaluated once, as Python evaluates an argument before the
\* call: Once(x, Op) is Op(x).
Once(x, Op(_)) == CHOOSE r \in { Op(v) : v \in {x} } : TRUE

\* Python's `k in t` for the string k (words k[1..n]) and the string t
Contains(t, k) ==
    \E s \in {t}, p \in {k} :
      LET n == Len(p) IN
      /\ n >= 1
      /\ \E i \in 1..(Len(s) - n + 1) :
            IF n = 1 THEN SubW(p[1], s[i])
            ELSE /\ SufW(p[1], s[i])
                 /\ PreW(p[n], s[i + n - 1])
                 /\ \A j \in 2..(n - 1) : p[j] = s[i + j - 1]

ContainsAny(t, ks) == \E i \in 1..Len(ks) : Contains(t, ks[i])

\* str.lower() on a word
LowerPairs ==
    { <<"Study", "study">>, <<"Requested", "requested">>, <<"Request", "request">>,
      <<"Time", "time">>, <<"Date", "date">>, <<"DateTime", "datetime">>,
      <<"Modality", "modality">>, <<"Mod", "mod">>, <<"Patient", "patient">>,
      <<"Name", "name">>, <<"Minutes", "minutes">>, <<"Since", "since">>,
      <<"Report", "report">>, <<"Out", "out">>, <<"Completed", "completed">>,
      <<"Studies", "studies">>, <<"Updated", "updated">>, <<"Scheduled", "scheduled">>,
      <<"Procedure", "procedure">>, <<"Exam", "exam">>, <<"Description", "description">>,
      <<"STUDY", "study">>, <<"TIME", "time">>, <<"DATE", "date">>,
      <<"Logout", "logout">>, <<"Logged", "logged">>, <<"In:", "in:">>,
      <<"Status", "status">>, <<"Site", "site">>, <<"Age", "age">> }

LowerW(w) ==
    IF \E p \in LowerPairs : p[1] = w
    THEN (CHOOSE p \in LowerPairs : p[1] = w)[2]
    ELSE w

Lower(t) == [i \in 1..Len(t) |-> LowerW(t[i])]

\* str.upper() on a word of a study cell
UpperPairs ==
    { <<"ct", "CT">>, <<"mri", "MRI">>, <<"mr", "MR">>, <<"and", "AND">>,
      <<"brain", "BRAIN">>, <<"head", "HEAD">>, <<"chest", "CHEST">>,
      <<"Brain", "BRAIN">>, <<"Head", "HEAD">>, <<"xr", "XR">>,
      <<"Study", "STUDY">>, <<"Requested", "REQUESTED">>, <<"Time", "TIME">>,
      <<"Patient", "PATIENT">>, <<"Name", "NAME">>, <<"Minutes", "MINUTES">>,
      <<"Since", "SINCE">>, <<"Request", "REQUEST">>, <<"Modality", "MODALITY">>,
      <<"Date", "DATE">>, <<"Status", "STATUS">>, <<"Site", "SITE">>,
      <<"Doe", "DOE">>, <<"Sep 21, 2025", "SEP 21, 2025">>,
      <<"Sep 20, 2025", "SEP 20, 2025">>, <<"Sep 14, 2025", "SEP 14, 2025">> }

UpperW(w) ==
    IF \E p \in UpperPairs : p[1] = w
    THEN (CHOOSE p \in UpperPairs : p[1] = w)[2]
    ELSE w

Upper(t) == [i \in 1..Len(t) |-> UpperW(t[i])]

\* len(s) of the string: the characters of the words plus the blanks between
WordLen(w) ==
    CASE w \in {",", ";", "/", "1"} -> 1
      [] w \in {"CT", "MR", "XR", "ct", "mr"} -> 2
      [] w \in {"MRI", "CTA", "MRN", "AND", "and", "Doe"} -> 3
      [] w \in {"head", "Head", "HEAD", "Site", "Time", "Date", "noon"} -> 4
      [] w \in {"brain", "Brain", "chest", "12345", "Study", "20:00", "19:01",
                "19:00", "18:31", "18:30", "18:01", "18:00", "20:30", "21:20"} -> 5
      [] w \in {"19:00:31", "19:00:30", "Modality"} -> 8
      [] w \in {"Requested"} -> 9
      [] w \in {"09/21/2025", "2025-09-21"} -> 10
      [] w \in {"Sep 21, 2025", "Sep 20, 2025", "Sep 14, 2025"} -> 12
      [] OTHER -> 6

RECURSIVE TextLen(_)
TextLen(t) ==
    IF t = <<>> THEN 0
    ELSE WordLen(Head(t)) + (IF Len(t) > 1 THEN 1 ELSE 0) + TextLen(Tail(t))

(* ------------------------- discovery helpers --------------------------- *)

\* A page: the text outside tables (a sequence of texts), whether it holds a
\* form with a password input, whether it carries a meta/script redirect, and
\* its tables in document order.  A table is its <tr> rows in order; a row is
\* [nth |-> number of leading <th> cells, cells |-> the texts of its cells].
\* status_ok is the response's r.ok (status below 400), which is its truth value.
EmptyPage ==
    [extra |-> <<>>, form |-> FALSE, redirect |-> FALSE, tables |-> <<>>, status_ok |-> TRUE]

\* r.text == "" (the `or ""` of the callers)
IsEmptyHtml(p) == p.extra = <<>> /\ ~p.form /\ ~p.redirect /\ p.tables = <<>>

\* the texts of the raw HTML: a phrase of the markup lies inside one text node
RowTexts(row) == { row.cells[i] : i \in 1..Len(row.cells) }
TableTexts(t) == UNION { RowTexts(t[r]) : r \in 1..Len(t) }
PageTexts(p) ==
    { p.extra[i] : i \in 1..Len(p.extra) }
    \cup UNION { TableTexts(p.tables[i]) : i \in 1..Len(p.tables) }

\* `k in html`
HtmlContains(p, k) == \E t \in PageTexts(p) : Contains(t, k)

header_hits ==
    << <<"Study", "Requested">>, <<"Requested", "Time">>, <<"Request", "Time">>,
       <<"Modality">>, <<"Study">> >>

looks_like_worklist(p) ==
    IF IsEmptyHtml(p) THEN FALSE
    ELSE IF \/ HtmlContains(p, <<"Completed", "Studies">>)
            \/ HtmlContains(p, <<"Report", "Out", "Time">>)
         THEN FALSE
    ELSE IF /\ HtmlContains(p, <<"Study", "Requested">>)
            /\ HtmlContains(p, <<"Minutes", "Since", "Request">>)
         THEN TRUE
    ELSE Cardinality({ i \in 1..Len(header_hits) : HtmlContains(p, header_hits[i]) }) >= 3

LoggedIn(p) ==
    HtmlContains(p, <<"Logout">>) \/ HtmlContains(p, <<"Logged", "In:">>)

_find_login_form(p) == p.form

(* ------------------------------- parser -------------------------------- *)

DATE_HEADERS ==
    << <<"Study", "Requested">>, <<"Requested", "Date">>, <<"Request", "Date">>,
       <<"Date", "Requested">>, <<"Scheduled", "Date">>, <<"Date">> >>
TIME_HEADERS ==
    << <<"Requested", "Time">>, <<"Request", "Time">>,
       <<"Study", "Requested", "Time">>, <<"Time">> >>
STUDY_HEADERS ==
    << <<"Study", "Requested">>, <<"Study">>, <<"Procedure">>, <<"Exam">>,
       <<"Study", "Name">>, <<"Study", "Description">>, <<"Procedure", "Requested">> >>

\* " ".join(cells): an empty cell leaves an empty word between two blanks
RECURSIVE Joined(_)
Joined(cells) ==
    IF cells = <<>> THEN <<>>
    ELSE (IF Head(cells) = <<>> THEN <<"">> ELSE Head(cells)) \o Joined(Tail(cells))

\* t.get_text(" ", strip=True): the non-empty text nodes, joined by a blank
RECURSIVE RowsText(_)
RowsText(rows) ==
    IF rows = <<>> THEN <<>>
    ELSE LET RECURSIVE Cat(_)
             Cat(cs) == IF cs = <<>> THEN <<>> ELSE Head(cs) \o Cat(Tail(cs))
         IN Cat(Head(rows).cells) \o RowsText(Tail(rows))

_header_cells(row) == row.cells

HeaderFilter == << <<"Requested">>, <<"Request">>, <<"Modality">>, <<"Study">> >>

\* the header candidates of a table: those of its first 3 rows that have
\* cells and mention a header word, in order
RECURSIVE HeadsOf(_)
HeadsOf(rows) ==
    IF rows = <<>> THEN <<>>
    ELSE LET cells == _header_cells(Head(rows))
             joined == Joined(cells)
             rest == HeadsOf(Tail(rows))
         IN IF cells = <<>> THEN rest
            ELSE IF \/ Contains(joined, <<"Study", "Requested">>)
                    \/ ContainsAny(joined, HeaderFilter)
                 THEN <<cells>> \o rest
            ELSE rest

_table_header_candidates(t) ==
    HeadsOf(SubSeq(t, 1, IF Len(t) < HeaderRows THEN Len(t) ELSE HeaderRows))

\* the exclusion test of _find_worklist_table on the table's full text
TableExcluded(t) ==
    \/ Contains(RowsText(t), <<"Report", "Out", "Time">>)
    \/ Contains(RowsText(t), <<"Completed", "Studies">>)

\* mutant: a header that passes both weak checks returns at once as well
RECURSIVE ScanHeads_FirstScore(_, _, _, _)
ScanHeads_FirstScore(heads, i, ti, best) ==
    IF i > Len(heads) THEN [found |-> FALSE, hdr |-> <<>>, best |-> best]
    ELSE LET hdr == heads[i]
             joined == Joined(hdr)
             score == (IF ContainsAny(joined, STUDY_HEADERS) THEN 1 ELSE 0)
                      + (IF ContainsAny(joined, DATE_HEADERS \o TIME_HEADERS) THEN 1 ELSE 0)
         IN IF Contains(joined, <<"Study", "Requested">>) \/ score >= 2
            THEN [found |-> TRUE, hdr |-> hdr, best |-> best]
            ELSE ScanHeads_FirstScore(heads, i + 1, ti, best)

\* the inner loop over one table's header candidates, from candidate i on:
\* [found |-> a strong match returns, hdr |-> its header, best |-> the
\* fallback kept so far, as [idx, headers] with idx = 0 for None]
RECURSIVE ScanHeads(_, _, _, _)
ScanHeads(heads, i, ti, best) ==
    IF i > Len(heads) THEN [found |-> FALSE, hdr |-> <<>>, best |-> best]
    ELSE LET hdr == heads[i]
             joined == Joined(hdr)
             score == (IF ContainsAny(joined, STUDY_HEADERS) THEN 1 ELSE 0)
                      + (IF ContainsAny(joined, DATE_HEADERS \o TIME_HEADERS) THEN 1 ELSE 0)
         IN IF Contains(joined, <<"Study", "Requested">>)
            THEN [found |-> TRUE, hdr |-> hdr, best |-> best]
            ELSE IF score >= 2 /\ best.idx = 0
                 THEN ScanHeads(heads, i + 1, ti, [idx |-> ti, headers |-> hdr])
            ELSE ScanHeads(heads, i + 1, ti, best)

\* mutant: the exclusion test is dropped
RECURSIVE FindFrom_NoExclusion(_, _, _)
FindFrom_NoExclusion(tables, ti, best) ==
    IF ti > Len(tables) THEN best
    ELSE LET scan == ScanHeads(_table_header_candidates(tables[ti]), 1, ti, best)
         IN IF scan.found THEN [idx |-> ti, headers |-> scan.hdr]
            ELSE FindFrom_NoExclusion(tables, ti + 1, scan.best)

\* the outer loop over the tables, from table ti on
RECURSIVE FindFrom(_, _, _)
FindFrom(tables, ti, best) ==
    IF ti > Len(tables) THEN best
    ELSE IF TableExcluded(tables[ti]) THEN FindFrom(tables, ti + 1, best)
    ELSE LET scan == ScanHeads(_table_header_candidates(tables[ti]), 1, ti, best)
         IN IF scan.found THEN [idx |-> ti, headers |-> scan.hdr]
            ELSE FindFrom(tables, ti + 1, scan.best)

\* mutant: the first table of the document is taken, whatever its headers
_find_worklist_table_First(p) ==
    [idx |-> IF p.tables = <<>> THEN 0 ELSE 1, headers |-> <<>>]

\* (table, headers): idx is the table's place in the document, 0 for None
_find_worklist_table(p) == FindFrom(p.tables, 1, [idx |-> 0, headers |-> <<>>])

\* idx_for: the first header that contains one of the names, ignoring case;
\* 0 stands for the code's -1 (sequences here start at 1)
idx_for(ths, names) ==
    LET hits == { i \in 1..Len(ths) :
                    \E n \in 1..Len(names) : Contains(Lower(ths[i]), Lower(names[n])) }
    IN IF hits = {} THEN 0 ELSE CHOOSE i \in hits : \A j \in hits : i <= j

_pick_column_indexes(ths) ==
    [date_i |-> idx_for(ths, DATE_HEADERS),
     time_i |-> idx_for(ths, TIME_HEADERS),
     study_i |-> idx_for(ths, STUDY_HEADERS)]

(* ------------------------- rows, dates and ages ------------------------ *)

\* The date and time literals of the sample pages: <<text, format, value>>.
\* A date's value is its day number (day 0 is Sunday, Sep 21, 2025), a time's
\* value the seconds since midnight.
DateLex ==
    { <<"Sep 21, 2025", "mon", 0>>, <<"Sep 20, 2025", "mon", -1>>,
      <<"Sep 14, 2025", "mon", -7>>, <<"09/21/2025", "slash", 0>>,
      <<"2025-09-21", "iso", 0>> }
TimeLex ==
    { <<"20:00", "HM", 72000>>, <<"19:01", "HM", 68460>>, <<"19:00", "HM", 68400>>,
      <<"18:31", "HM", 66660>>, <<"18:30", "HM", 66600>>, <<"18:01", "HM", 64860>>,
      <<"18:00", "HM", 64800>>, <<"20:30", "HM", 73800>>, <<"21:20", "HM", 76800>>,
      <<"19:00:31", "HMS", 68431>>, <<"19:00:30", "HMS", 68430>> }

IsDateWord(w) == \E d \in DateLex : d[1] = w
IsTimeWord(w) == \E d \in TimeLex : d[1] = w
DateOf(w) == CHOOSE d \in DateLex : d[1] = w
TimeOf(w) == CHOOSE d \in TimeLex : d[1] = w

SecondsPerDay == 86400

\* re.search(r"(Jan|...|Dec)\s+\d{1,2},\s+\d{4}", s)
MonthDateSearch(s) == \E i \in 1..Len(s) : IsDateWord(s[i]) /\ DateOf(s[i])[2] = "mon"

\* re.match(r"\d{1,2}:\d{2}(:\d{2})?$", s)
TimeMatch(s) == Len(s) = 1 /\ IsTimeWord(s[1])

\* parse_req_dt: the six formats are the three date forms, each with and
\* without seconds; the result is the instant in seconds, or "none"
parse_req_dt(date_str, time_str) ==
    IF /\ Len(date_str) = 1 /\ IsDateWord(date_str[1])
       /\ Len(time_str) = 1 /\ IsTimeWord(time_str[1])
    THEN [ok |-> TRUE,
          at |-> DateOf(date_str[1])[3] * SecondsPerDay + TimeOf(time_str[1])[3]]
    ELSE [ok |-> FALSE, at |-> 0]

\* re.split(r"[;,/]|(?:\bAND\b)", upper), empty parts dropped
IsSeparator(w) == w \in {";", ",", "/", "AND"}

RECURSIVE SplitParts(_, _)
SplitParts(words, cur) ==
    IF words = <<>> THEN (IF cur = <<>> THEN <<>> ELSE <<cur>>)
    ELSE IF IsSeparator(Head(words))
         THEN (IF cur = <<>> THEN <<>> ELSE <<cur>>) \o SplitParts(Tail(words), <<>>)
    ELSE SplitParts(Tail(words), Append(cur, Head(words)))

\* len(re.findall(r"\bCT\b", p)) + len(re.findall(r"\bMRI?\b", p))
MentionsInPart(part) ==
    Cardinality({ i \in 1..Len(part) : part[i] = "CT" })
    + Cardinality({ i \in 1..Len(part) : part[i] \in {"MR", "MRI"} })

RECURSIVE SumParts(_)
SumParts(parts) ==
    IF parts = <<>> THEN 0 ELSE MentionsInPart(Head(parts)) + SumParts(Tail(parts))

\* inc: the CT/MR mentions of a study cell
MentionCount(study_text) ==
    Once(Upper(study_text), LAMBDA upper : Once(SplitParts(upper, <<>>), SumParts))

\* (("CT" in s.upper()) or ("MR" in s.upper()), len(s)): the key of max()
HintKey(s) ==
    [hint |-> Contains(Upper(s), <<"CT">>) \/ Contains(Upper(s), <<"MR">>),
     len |-> TextLen(s)]

KeyLess(a, b) ==
    \/ (~a.hint /\ b.hint)
    \/ (a.hint = b.hint /\ a.len < b.len)

\* max(td_texts, key=..., default=""): the first cell whose key is greatest
MaxByHint(td_texts) ==
    IF td_texts = <<>> THEN <<>>
    ELSE LET best == CHOOSE i \in 1..Len(td_texts) :
                        /\ \A j \in 1..Len(td_texts) :
                              ~KeyLess(HintKey(td_texts[i]), HintKey(td_texts[j]))
                        /\ \A j \in 1..(i - 1) :
                              KeyLess(HintKey(td_texts[j]), HintKey(td_texts[i]))
         IN td_texts[best]

\* the first cell the pattern finds, "" when there is none
FirstWhere(td_texts, P(_)) ==
    LET hits == { i \in 1..Len(td_texts) : P(td_texts[i]) }
    IN IF hits = {} THEN <<>>
       ELSE td_texts[CHOOSE i \in hits : \A j \in hits : i <= j]

\* minutes = int((now_local - req_dt).total_seconds() // 60)
AgeMinutes(now_at, req_at) == (now_at - req_at) \div 60

\* mutant: the bucket bounds are exclusive
BucketOf_Strict(minutes) ==
    IF minutes > Age120 THEN "120"
    ELSE IF minutes > Age90 THEN "90"
    ELSE "60"

\* the bucket of a row that is at least 60 minutes old
BucketOf(minutes) ==
    IF minutes >= Age120 THEN "120"
    ELSE IF minutes >= Age90 THEN "90"
    ELSE "60"

\* mutant: the minimum cell count of the fixed-position variant
RowIsSeen_Seven(row) == row.nth = 0 /\ Len(row.cells) >= 7

\* whether the loop counts the row in rows_seen
RowIsSeen(row) == row.nth = 0 /\ Len(row.cells) >= MinCells

\* One pass of the row loop of parse_worklist_counts on one <tr>, as the
\* values of its locals when the pass ends: seen says whether rows_seen is
\* incremented, inc is the number of mentions, parsed whether the mentions
\* are positive and the timestamp parsed, elapsed the seconds from req_dt
\* to now_local, bucket "none" for a row that adds nothing.
RowEffect(row, cols, now_at) ==
    IF ~RowIsSeen(row)
    THEN [seen |-> FALSE, inc |-> 0, parsed |-> FALSE, elapsed |-> 0, minutes |-> 0,
          bucket |-> "none"]
    ELSE
    LET td_texts == row.cells
        n == Len(td_texts)
        at_study == IF cols.study_i >= 1 /\ cols.study_i <= n
                    THEN td_texts[cols.study_i] ELSE <<>>
        study_text == IF at_study = <<>> THEN MaxByHint(td_texts) ELSE at_study
        date0 == IF cols.date_i >= 1 /\ cols.date_i <= n
                 THEN td_texts[cols.date_i] ELSE <<>>
        time0 == IF cols.time_i >= 1 /\ cols.time_i <= n
                 THEN td_texts[cols.time_i] ELSE <<>>
        scan == date0 = <<>> \/ time0 = <<>>
        date_text == IF scan /\ date0 = <<>>
                     THEN FirstWhere(td_texts, MonthDateSearch) ELSE date0
        time_text == IF scan /\ time0 = <<>>
                     THEN FirstWhere(td_texts, TimeMatch) ELSE time0
        inc == MentionCount(study_text)
        req_dt == IF date_text # <<>> /\ time_text # <<>>
                  THEN parse_req_dt(date_text, time_text)
                  ELSE [ok |-> FALSE, at |-> 0]
        elapsed == now_at - req_dt.at
        minutes == AgeMinutes(now_at, req_dt.at)
    IN IF inc = 0
       THEN [seen |-> TRUE, inc |-> 0, parsed |-> FALSE, elapsed |-> 0, minutes |-> 0,
             bucket |-> "none"]
       ELSE IF ~req_dt.ok
            THEN [seen |-> TRUE, inc |-> inc, parsed |-> FALSE, elapsed |-> 0,
                  minutes |-> 0, bucket |-> "none"]
       ELSE IF minutes < Age60
            THEN [seen |-> TRUE, inc |-> inc, parsed |-> TRUE, elapsed |-> elapsed,
                  minutes |-> minutes, bucket |-> "none"]
       ELSE [seen |-> TRUE, inc |-> inc, parsed |-> TRUE, elapsed |-> elapsed,
             minutes |-> minutes, bucket |-> BucketOf(minutes)]

\* mutant: a row adds one, however many mentions it has
AddToBucket_One(c, bucket, inc) == [c EXCEPT ![bucket] = @ + 1]

\* counts[bucket]+=inc
AddToBucket(c, bucket, inc) == [c EXCEPT ![bucket] = @ + inc]

(* ---------------------------- sample pages ----------------------------- *)

T(w) == <<w>>
Row(cells) == [nth |-> 0, cells |-> cells]
ThRow(cells) == [nth |-> Len(cells), cells |-> cells]

\* header rows: Date | Time | Study Requested | Modality | Minutes Since Request | Patient Name
HdrGood ==
    << T("Date"), T("Time"), <<"Study", "Requested">>, T("Modality"),
       <<"Minutes", "Since", "Request">>, <<"Patient", "Name">> >>
\* the study column comes first and is also the first "date" header
HdrStudyFirst ==
    << <<"Study", "Requested">>, T("Date"), T("Time"), T("Modality"),
       <<"Minutes", "Since", "Request">>, <<"Patient", "Name">> >>
\* no strong phrase: a study word, a date word, three of the backup signals
HdrWeak ==
    << T("Date"), <<"Request", "Time">>, T("Study"), T("Modality"),
       T("Status"), <<"Patient", "Name">> >>
\* the header of the completed-studies table
HdrCompleted ==
    << T("Date"), T("Time"), <<"Study", "Requested">>, T("Modality"),
       <<"Report", "Out", "Time">>, <<"Patient", "Name">> >>
\* a layout table: nothing of a worklist header
HdrPlain ==
    << <<"Patient", "Name">>, T("Site"), T("Status"), T("Age"), T("Site") >>

\* a data row in the column order of HdrGood
DataRow(date, time, study) ==
    Row(<< date, time, study, T("CT"), T("12345"), T("Doe") >>)

Today == T("Sep 21, 2025")

RowCT60 == DataRow(Today, T("19:00"), <<"CT", "head">>)
RowCTMRI89 == DataRow(Today, T("18:31"), <<"CT", ",", "MRI", "brain">>)
RowCT90 == DataRow(T("09/21/2025"), T("18:30"), T("CT"))
RowMR119 == DataRow(T("2025-09-21"), T("18:01"), <<"MR", "AND", "ct">>)
RowMRI120 == DataRow(Today, T("18:00"), <<"MRI", "/", "CT", ";", "MR">>)
RowCT59 == DataRow(Today, T("19:01"), T("CT"))
RowCT59s == DataRow(Today, T("19:00:31"), T("CT"))
RowCT60s == DataRow(Today, T("19:00:30"), T("CT"))
RowOld == DataRow(T("Sep 14, 2025"), T("21:20"), T("CT"))
RowFuture == DataRow(Today, T("20:30"), T("CT"))
RowCTA == DataRow(Today, T("18:00"), <<"CTA", "chest">>)
RowMRN == DataRow(Today, T("18:00"), <<"MRN", "12345">>)
RowBadTime == DataRow(Today, T("noon"), T("CT"))
RowNoStudyCell == DataRow(Today, T("18:00"), <<>>)
RowNoDateCell == DataRow(<<>>, T("18:30"), <<"MRI", "brain">>)
RowShort == Row(<< Today, T("18:00"), T("CT"), T("Doe") >>)
RowWithTh == [nth |-> 1, cells |-> << T("1"), Today, T("18:00"), T("CT"), T("CT"), T("Doe") >>]
RowEmpty == Row(<<>>)
\* 25 mentions in one cell
RowMany == DataRow(Today, T("18:00"), [i \in 1..25 |-> "CT"])

SampleRows ==
    { RowCT60, RowCTMRI89, RowCT90, RowMR119, RowMRI120, RowCT59, RowCT59s,
      RowCT60s, RowOld, RowFuture, RowCTA, RowMRN, RowBadTime, RowNoStudyCell,
      RowNoDateCell, RowShort, RowWithTh, RowEmpty }

\* the sequences over S of length at most n
RECURSIVE SeqsUpTo(_, _)
SeqsUpTo(S, n) ==
    IF n = 0 THEN { <<>> }
    ELSE LET shorter == SeqsUpTo(S, n - 1)
         IN shorter \cup { Append(q, x) : q \in { z \in shorter : Len(z) = n - 1 }, x \in S }

TableOf(hdrRow, rows) == <<hdrRow>> \o rows

WorklistTable == TableOf(Row(HdrGood), << RowCT60, RowCTMRI89, RowMRI120, RowCT59 >>)
BigTable == TableOf(ThRow(HdrGood), << RowMany, RowCTA >>)
WeakTable == TableOf(Row(HdrWeak), << RowCT90, RowCTA >>)
CompletedTable == TableOf(Row(HdrCompleted), << RowMRI120, RowCT90 >>)
PlainTable == TableOf(Row(HdrPlain), << >>)

Page(extra, form, redirect, tables) ==
    [extra |-> extra, form |-> form, redirect |-> redirect, tables |-> tables,
     status_ok |-> TRUE]

PageLogin == Page(<< T("Login") >>, TRUE, FALSE, << PlainTable >>)
PageHome == Page(<< T("Logout") >>, FALSE, FALSE, << PlainTable >>)
PageNotFound ==
    [Page(<< <<"Not", "Found">> >>, FALSE, FALSE, << >>) EXCEPT !.status_ok = FALSE]
PageRedirect == Page(<< T("Loading") >>, FALSE, TRUE, << >>)
PageWorklist == Page(<< <<"Logged", "In:">> >>, FALSE, FALSE, << PlainTable, WorklistTable >>)
PageBig == Page(<< >>, FALSE, FALSE, << BigTable >>)
PageWeak == Page(<< >>, FALSE, FALSE, << WeakTable >>)
PageCompleted == Page(<< T("Logout") >>, FALSE, FALSE, << CompletedTable >>)
\* the worklist headings outside any table: nothing for the parser to find
PageNoTable ==
    Page(<< <<"Study", "Requested">>, <<"Minutes", "Since", "Request">> >>,
         FALSE, FALSE, << PlainTable >>)

\* what the site may answer to a request
SitePages ==
    { EmptyPage, PageLogin, PageHome, PageNotFound, PageRedirect, PageWorklist,
      PageBig, PageWeak, PageCompleted, PageNoTable }

(* ------------------------------ the site ------------------------------- *)

\* A URL is a number: negative for another origin, OutsideUrl for a page of
\* the same origin that is not under BASE_URL, 0 for the page the login POST
\* ends on.  A site is the shape of its link graph.
OutsideUrl == 999
Branch == 4
RingSize == 5

Sites == { "tree", "ring", "chain", "none" }

\* the href / src values of the page at u, in document order
RawLinks(site, u) ==
    CASE site = "tree" ->
           [k \in 1..Branch |-> Branch * u + k] \o << Branch * u + 1, -1, OutsideUrl >>
      [] site = "ring" -> << (u + 1) % RingSize, 0, u >>
      [] site = "chain" -> << u + 1 >>
      [] OTHER -> << >>

_same_origin(u) == u >= 0
StartsWithBase(u) == u # OutsideUrl

\* collect_links_and_frames: same-origin links, first occurrence kept
RECURSIVE Dedupe(_, _)
Dedupe(urls, seen_) ==
    IF urls = <<>> THEN <<>>
    ELSE IF Head(urls) \in seen_ \/ ~_same_origin(Head(urls))
         THEN Dedupe(Tail(urls), seen_)
    ELSE <<Head(urls)>> \o Dedupe(Tail(urls), seen_ \cup {Head(urls)})

collect_links_and_frames(site, u, page) ==
    IF IsEmptyHtml(page) THEN <<>> ELSE Dedupe(RawLinks(site, u), {})

\* the number of DISCOVERY_KEYWORDS in the URL: the even pages carry one
KeywordScore(u) == IF u % 2 = 0 THEN 1 ELSE 0

\* sort by (-score, url)
RECURSIVE SortUrls(_)
SortUrls(S) ==
    IF S = {} THEN <<>>
    ELSE LET m == CHOOSE x \in S : \A y \in S :
                     \/ KeywordScore(x) > KeywordScore(y)
                     \/ (KeywordScore(x) = KeywordScore(y) /\ x <= y)
         IN <<m>> \o SortUrls(S \ {m})

prioritize(urls) == SortUrls({ urls[i] : i \in 1..Len(urls) })

\* the entries the crawl appends for the links of a page: those in BASE_URL
\* and not seen, at the given depth
RECURSIVE Enqueue(_, _, _)
Enqueue(urls, seen_, depth) ==
    IF urls = <<>> THEN <<>>
    ELSE IF Head(urls) \notin seen_ /\ StartsWithBase(Head(urls))
         THEN <<[url |-> Head(urls), depth |-> depth]>>
              \o Enqueue(Tail(urls), seen_ \cup {Head(urls)}, depth)
    ELSE Enqueue(Tail(urls), seen_, depth)

(* ----------------------------- safe_get -------------------------------- *)

\* mutant: a request that raises is recorded and answered with an empty page
SafeFetch_Swallow ==
    { [raised |-> FALSE, page |-> EmptyPage, gets |-> 1, dumps |-> <<"exception">>] }
    \cup { [raised |-> FALSE, page |-> p, gets |-> 1, dumps |-> <<"page">>] :
             p \in { x \in SitePages : ~x.redirect } }
    \cup { [raised |-> FALSE, page |-> p, gets |-> 2, dumps |-> <<"page", "redirect">>] :
             p \in SitePages }

\* The outcomes of one safe_get or safe_post: the request raises; or it
\* answers a page without redirect; or it answers a page with a meta/script
\* redirect and the second GET raises or answers the page returned.  gets is
\* the number of HTTP requests made, dumps the debug files written, in order.
SafeFetch ==
    { [raised |-> TRUE, page |-> EmptyPage, gets |-> 1, dumps |-> <<"exception">>] }
    \cup { [raised |-> FALSE, page |-> p, gets |-> 1, dumps |-> <<"page">>] :
             p \in { x \in SitePages : ~x.redirect } }
    \cup { [raised |-> TRUE, page |-> EmptyPage, gets |-> 2,
            dumps |-> <<"page", "exception">>] }
    \cup { [raised |-> FALSE, page |-> p, gets |-> 2, dumps |-> <<"page", "redirect">>] :
             p \in SitePages }

\* The same for a URL of the link graph: its pages are not empty (a page
\* without text has no links; the site "none" is the graph without links).
CrawlFetch == { o \in SafeFetch : o.raised \/ ~IsEmptyHtml(o.page) }

(* ------------------------------- config -------------------------------- *)

\* str.strip() and str.lower() on the values FORCE_ALERT takes here
StripEnv(v) == IF v = " Y " THEN "Y" ELSE v
LowerEnv(v) ==
    CASE v = "Y" -> "y"
      [] v = " Y " -> " y "
      [] v = "TRUE" -> "true"
      [] OTHER -> v

\* monitor.py: str(v).strip().lower() in ("1","true","yes","y","on")
env_truthy(v) == LowerEnv(StripEnv(v)) \in {"1", "true", "yes", "y", "on"}

\* send_telegram.py: os.environ.get("FORCE_ALERT","").lower() in ("1","true","yes","on")
TelegramForce(v) == LowerEnv(v) \in {"1", "true", "yes", "on"}

ForceValues == { "false", "TRUE", " Y " }

\* config.yml's threshold_total; DEFAULT_THRESHOLD when the key is absent
ThresholdValues == { 0, 2, DEFAULT_THRESHOLD }

\* now_local: weekday() (Monday is 0), the day number and the seconds since
\* midnight.  Sunday 20:00:30, Sunday 21:00:30, Monday 18:00:00.
NowValues ==
    { [wd |-> 6, day |-> 0, tod |-> 72030],
      [wd |-> 6, day |-> 0, tod |-> 75630],
      [wd |-> 0, day |-> 1, tod |-> 64800] }

NowAt(n) == n.day * SecondsPerDay + n.tod

\* dt.time(h, m, s) as seconds since midnight
TimeOfDay(h, m, sec) == (h * 60 + m) * 60 + sec

allowed_window(now_local) ==
    LET wd == now_local.wd
        t == now_local.tod
        between(a, b) == a <= t /\ t <= b
    IN IF 0 <= wd /\ wd <= 4
       THEN between(TimeOfDay(18, 0, 0), TimeOfDay(23, 59, 59))
       ELSE IF wd = 5
            THEN between(TimeOfDay(4, 0, 0), TimeOfDay(23, 59, 59))
       ELSE between(TimeOfDay(0, 0, 0), TimeOfDay(21, 0, 0))

\* mutant: the window gate is dropped
AlertDecision_NoWindow(total, thr, allowed_, force) ==
    IF force THEN TRUE ELSE total >= thr

\* mutant: the comparison with the threshold is turned around
AlertDecision_Flipped(total, thr, allowed_, force) ==
    IF force THEN TRUE ELSE (total <= thr) /\ allowed_

\* alert_ok = (total>=threshold) and allowed; if force_alert: alert_ok=True
AlertDecision(total, thr, allowed_, force) ==
    IF force THEN TRUE ELSE (total >= thr) /\ allowed_

(* ------------------------------- state --------------------------------- *)

VARIABLES
    pc,             \* where the run is
    force_alert,    \* main: env_truthy("FORCE_ALERT")
    threshold,      \* main: threshold
    now,            \* main: now_local
    allowed,        \* main: allowed_window(now_local)
    site,           \* the link graph of the site (the environment)
    nav,            \* the locals of try_login_and_fetch_worklist
    nav_exit,       \* how try_login_and_fetch_worklist ended, and where
    diag,           \* the kinds of debug files written by dump()
    html,           \* main: html
    errors,         \* main: errors
    parse,          \* parse_worklist_counts: table, headers, columns, row index
    counts,         \* counts
    rows_seen,      \* rows_seen
    considered,     \* considered / ctmr_considered
    perrors,        \* debug["errors"]
    included_rows,  \* included_rows
    status_written, \* whether status.json has been written
    status,         \* the content of status.json
    last_fetch,     \* the last safe_get / safe_post: its requests and dump() calls
    tg              \* send_telegram.py: its globals, loop position and results

vars ==
    << pc, force_alert, threshold, now, allowed, site, nav, nav_exit, diag, html,
       errors, parse, counts, rows_seen, considered, perrors, included_rows,
       status_written, status, last_fetch, tg >>

navVars == << nav, nav_exit, diag, html, errors, last_fetch >>
parseVars == << parse, counts, rows_seen, considered, perrors, included_rows >>
configVars == << force_alert, threshold, now, allowed, site >>
outVars == << status_written, status, tg >>

NavInit ==
    [i |-> 1, has_r |-> FALSE, r |-> EmptyPage, html |-> EmptyPage, r3 |-> EmptyPage,
     q |-> <<>>, seen |-> {}, visit_count |-> 0, crawl_gets |-> 0]

ZeroCounts == [b \in {"60", "90", "120"} |-> 0]

\* no request made yet
NoFetch == [raised |-> FALSE, gets |-> 0, dumps |-> <<>>]

NoRow ==
    [seen |-> FALSE, inc |-> 0, parsed |-> FALSE, elapsed |-> 0, minutes |-> 0,
     bucket |-> "none"]

ParseInit == [table |-> <<>>, headers |-> <<>>,
              cols |-> [date_i |-> 0, time_i |-> 0, study_i |-> 0], ri |-> 1,
              last |-> NoRow]

StatusInit ==
    [counts |-> ZeroCounts, total |-> 0, alert_triggered |-> FALSE,
     allowed_window |-> FALSE, threshold_total |-> 0, rows_seen |-> 0,
     ctmr_considered |-> 0, errors |-> <<>>]

TgInit ==
    [token |-> FALSE, chat_ids |-> <<>>, force |-> FALSE, alert |-> FALSE,
     i |-> 1, results |-> <<>>, sent |-> 0, rc |-> 0]

\* the state of main() before the try block, for one configuration
InitWith(forces, thresholds, nows, sites) ==
    /\ pc = "wl_direct"
    /\ \E f \in forces : force_alert = env_truthy(f)
    /\ threshold \in thresholds
    /\ now \in nows
    /\ allowed = allowed_window(now)
    /\ site \in sites
    /\ nav = NavInit
    /\ nav_exit = [how |-> "none", at |-> "none"]
    /\ diag = {}
    /\ html = EmptyPage
    /\ errors = <<>>
    /\ parse = ParseInit
    /\ counts = ZeroCounts
    /\ rows_seen = 0
    /\ considered = 0
    /\ perrors = <<>>
    /\ included_rows = <<>>
    /\ status_written = FALSE
    /\ status = StatusInit
    /\ last_fetch = NoFetch
    /\ tg = TgInit

Init == InitWith(ForceValues, ThresholdValues, NowValues, {"chain"})

(* ---------------------- try_login_and_fetch_worklist ------------------- *)

\* mutant: only the first response of a call is dumped
Dumped_FirstOnly(o) == { o.dumps[1] }

\* the kinds of file the dump() calls of one safe_get / safe_post write
Dumped(o) == { o.dumps[i] : i \in 1..Len(o.dumps) }

\* what one safe_get / safe_post call, and a dump() after it, leave in docs/
Report(o, more) ==
    /\ diag' = diag \cup Dumped(o) \cup more
    /\ last_fetch' = [raised |-> o.raised, gets |-> o.gets, dumps |-> o.dumps]

\* return base, html
NavReturn(page, at) ==
    /\ html' = page
    /\ nav' = NavInit
    /\ nav_exit' = [how |-> "return", at |-> at]
    /\ errors' = errors
    /\ pc' = "fetched"

\* mutant: the exception is not caught by main and ends the process
NavRaise_Uncaught(err, at) ==
    /\ html' = EmptyPage
    /\ nav' = NavInit
    /\ nav_exit' = [how |-> "raise", at |-> at]
    /\ errors' = Append(errors, err)
    /\ pc' = "crashed"

\* an exception leaves the function; main's except clause records it
NavRaise(err, at) ==
    /\ html' = EmptyPage
    /\ nav' = NavInit
    /\ nav_exit' = [how |-> "raise", at |-> at]
    /\ errors' = Append(errors, err)
    /\ pc' = "fetched"

NavGoto(next_pc, next_nav) ==
    /\ pc' = next_pc
    /\ nav' = next_nav
    /\ UNCHANGED << nav_exit, html, errors >>

FetchError == "fetch: ConnectionError"
NoIndexError == "fetch: RuntimeError: Failed to fetch any Index.aspx variant"
NoFormError == "fetch: RuntimeError: No login form found"
NotReachableError == "fetch: RuntimeError: Login POST ok but Worklist not reachable"

\* for i,wp in enumerate(WORKLIST_PATHS,1): the direct attempts
DirectAttempt ==
    /\ pc = "wl_direct"
    /\ \E o \in SafeFetch :
         /\ Report(o, {})
         /\ IF o.raised THEN NavRaise(FetchError, "wl_direct")
            ELSE IF looks_like_worklist(o.page) THEN NavReturn(o.page, "wl_direct")
            ELSE IF nav.i < NumWorklistPaths
                 THEN NavGoto("wl_direct", [nav EXCEPT !.i = @ + 1])
            ELSE NavGoto("index", [nav EXCEPT !.i = 1])
    /\ UNCHANGED << configVars, parseVars, outVars >>

\* what follows the loop over INDEX_CANDIDATES, up to the next request
AfterIndex(n) ==
    IF ~(n.has_r /\ n.r.status_ok) THEN NavRaise(NoIndexError, "index")
    ELSE IF LoggedIn(n.html) /\ looks_like_worklist(n.html)
         THEN NavGoto("via_index", n)
    ELSE IF _find_login_form(n.html) THEN NavGoto("post", n)
    ELSE NavGoto("probe", [n EXCEPT !.i = 1])

\* for i, ic in enumerate(INDEX_CANDIDATES,1)
IndexAttempt ==
    /\ pc = "index"
    /\ \E o \in SafeFetch :
         /\ Report(o, {})
         /\ IF o.raised THEN NavRaise(FetchError, "index")
            ELSE LET got == ~IsEmptyHtml(o.page)
                     n1 == IF got
                           THEN [nav EXCEPT !.has_r = TRUE, !.r = o.page, !.html = o.page]
                           ELSE nav
                     stop == got /\ (LoggedIn(o.page) \/ _find_login_form(o.page))
                 IN IF stop \/ nav.i = NumIndexCandidates THEN AfterIndex(n1)
                    ELSE NavGoto("index", [n1 EXCEPT !.i = @ + 1])
    /\ UNCHANGED << configVars, parseVars, outVars >>

\* "Possibly already logged in": the worklist is fetched again and returned
ViaIndex ==
    /\ pc = "via_index"
    /\ \E o \in SafeFetch :
         /\ Report(o, {})
         /\ IF o.raised THEN NavRaise(FetchError, "via_index")
            ELSE NavReturn(o.page, "via_index")
    /\ UNCHANGED << configVars, parseVars, outVars >>

\* for cand in LOGIN_CANDIDATES: probe the known login pages
ProbeLogin ==
    /\ pc = "probe"
    /\ \E o \in SafeFetch :
         IF o.raised
         THEN Report(o, {}) /\ NavRaise(FetchError, "probe")
         ELSE IF _find_login_form(o.page)
              THEN /\ Report(o, {})
                   /\ NavGoto("post", [nav EXCEPT !.html = o.page, !.r = o.page,
                                                  !.has_r = TRUE])
         ELSE IF nav.i < NumLoginCandidates
              THEN /\ Report(o, {})
                   /\ NavGoto("probe", [nav EXCEPT !.i = @ + 1])
         ELSE /\ Report(o, {"no_login_form"})
              /\ NavRaise(NoFormError, "probe")
    /\ UNCHANGED << configVars, parseVars, outVars >>

\* r3=safe_post(...): submit the login form
LoginPost ==
    /\ pc = "post"
    /\ \E o \in SafeFetch :
         /\ Report(o, {})
         /\ IF o.raised THEN NavRaise(FetchError, "post")
            ELSE NavGoto("wl_final", [nav EXCEPT !.r3 = o.page, !.i = 1])
    /\ UNCHANGED << configVars, parseVars, outVars >>

\* the while condition of the crawl: when it fails the function raises
CrawlOrGiveUp(n) ==
    IF n.q # <<>> /\ n.visit_count < max_visits THEN NavGoto("crawl", n)
    ELSE NavRaise(NotReachableError, "crawl")

\* the queue and the seen set built from the page the login POST ended on
CrawlStart(n) ==
    LET first == Enqueue(prioritize(collect_links_and_frames(site, 0, n.r3)), {}, 1)
    IN [n EXCEPT !.q = first,
                 !.seen = { first[i].url : i \in 1..Len(first) },
                 !.visit_count = 0, !.crawl_gets = 0]

\* for i, wp in enumerate(WORKLIST_PATHS,1): the attempts after the login
FinalAttempt ==
    /\ pc = "wl_final"
    /\ \E o \in SafeFetch :
         /\ Report(o, {})
         /\ IF o.raised THEN NavRaise(FetchError, "wl_final")
            ELSE IF looks_like_worklist(o.page) THEN NavReturn(o.page, "wl_final")
            ELSE IF nav.i < NumWorklistPaths
                 THEN NavGoto("wl_final", [nav EXCEPT !.i = @ + 1])
            ELSE CrawlOrGiveUp(CrawlStart(nav))
    /\ UNCHANGED << configVars, parseVars, outVars >>

\* one pass of the while loop of the discovery crawl
CrawlVisit ==
    /\ pc = "crawl"
    /\ nav.q # <<>> /\ nav.visit_count < max_visits
    /\ \E o \in CrawlFetch :
         LET url == Head(nav.q).url
             depth == Head(nav.q).depth
             n1 == [nav EXCEPT !.q = Tail(@), !.visit_count = @ + 1,
                               !.crawl_gets = @ + o.gets]
             more == IF depth < max_depth
                     THEN Enqueue(prioritize(collect_links_and_frames(site, url, o.page)),
                                  n1.seen, depth + 1)
                     ELSE <<>>
             n2 == [n1 EXCEPT !.q = @ \o more,
                              !.seen = @ \cup { more[i].url : i \in 1..Len(more) }]
         IN /\ Report(o, {})
            /\ IF o.raised THEN NavRaise(FetchError, "crawl")
               ELSE IF looks_like_worklist(o.page) THEN NavReturn(o.page, "crawl")
               ELSE CrawlOrGiveUp(n2)
    /\ UNCHANGED << configVars, parseVars, outVars >>

(* ------------------------- parse_worklist_counts ----------------------- *)

NoTableError == "worklist table not found"
NoHtmlError == "no HTML fetched"

\* The call of parse_worklist_counts up to its row loop: the table is
\* located, and either the function returns the zero result with an error,
\* or the columns are picked and the loop starts.
ParseStart ==
    /\ pc = "fetched"
    /\ ~IsEmptyHtml(html)
    /\ \E found \in {_find_worklist_table(html)} :
          IF found.idx = 0
          THEN /\ perrors' = Append(perrors, NoTableError)
               /\ parse' = ParseInit
               /\ pc' = "decide"
          ELSE LET table == html.tables[found.idx]
                   headers == IF found.headers = <<>>
                              THEN _header_cells(table[1]) ELSE found.headers
               IN /\ parse' = [table |-> table, headers |-> headers,
                               cols |-> _pick_column_indexes(headers), ri |-> 1,
                               last |-> NoRow]
                  /\ perrors' = perrors
                  /\ pc' = "rows"
    /\ counts' = ZeroCounts
    /\ rows_seen' = 0
    /\ considered' = 0
    /\ included_rows' = <<>>
    /\ UNCHANGED << configVars, navVars, outVars >>

\* else: debug["errors"].append("no HTML fetched")
NoHtml ==
    /\ pc = "fetched"
    /\ IsEmptyHtml(html)
    /\ perrors' = Append(perrors, NoHtmlError)
    /\ pc' = "decide"
    /\ UNCHANGED << configVars, navVars, outVars, parse, counts, rows_seen,
                    considered, included_rows >>

\* for tr in table.find_all("tr"): one row
RowStep ==
    /\ pc = "rows"
    /\ parse.ri <= Len(parse.table)
    /\ \E e \in {RowEffect(parse.table[parse.ri], parse.cols, NowAt(now))} :
          /\ rows_seen' = IF e.seen THEN rows_seen + 1 ELSE rows_seen
          /\ IF e.bucket # "none"
             THEN /\ counts' = AddToBucket(counts, e.bucket, e.inc)
                  /\ considered' = considered + e.inc
                  /\ included_rows' =
                        Append(included_rows,
                               [bucket |-> e.bucket, age_min |-> e.minutes,
                                ct_mr_count_in_row |-> e.inc])
             ELSE UNCHANGED << counts, considered, included_rows >>
          /\ parse' = [parse EXCEPT !.ri = @ + 1, !.last = e]
    /\ pc' = IF parse.ri = Len(parse.table) THEN "decide" ELSE "rows"
    /\ UNCHANGED << configVars, navVars, outVars, perrors >>

(* --------------------------- main: the decision ------------------------ *)

Total(c) == c["60"] + c["90"] + c["120"]

\* total, alert_ok, status and safe_write_status(status)
Decide ==
    /\ pc = "decide"
    /\ status' =
         [counts |-> counts, total |-> Total(counts),
          alert_triggered |-> AlertDecision(Total(counts), threshold, allowed, force_alert),
          allowed_window |-> allowed, threshold_total |-> threshold,
          rows_seen |-> rows_seen, ctmr_considered |-> considered,
          errors |-> errors \o perrors]
    /\ status_written' = TRUE
    /\ pc' = "done"
    /\ UNCHANGED << configVars, navVars, parseVars, tg >>

(* --------------------------- send_telegram.py -------------------------- *)

\* the greatest number of chat ids configured
MaxChats == 2

\* CHAT_IDS: the ids 1..n
ChatLists == { [i \in 1..n |-> i] : n \in 0..MaxChats }

\* rc of main(): 0 if any(r["ok"]) else 1
ExitCode(results) == IF \E i \in 1..Len(results) : results[i].ok THEN 0 ELSE 1

\* The start of send_telegram.main after the monitor has written
\* status.json: the module's globals are read from the environment, the
\* status is loaded and the gate is evaluated.
TgStart ==
    /\ pc = "done"
    /\ \E token \in BOOLEAN, chats \in ChatLists, f \in ForceValues :
         LET force == TelegramForce(f)
             alert == IF status_written THEN status.alert_triggered ELSE FALSE
             t0 == [tg EXCEPT !.token = token, !.chat_ids = chats, !.force = force]
         IN IF ~token \/ chats = <<>>
            THEN tg' = t0 /\ pc' = "tg_end"
            ELSE IF ~alert /\ ~force
                 THEN tg' = [t0 EXCEPT !.alert = alert] /\ pc' = "tg_end"
            ELSE tg' = [t0 EXCEPT !.alert = alert] /\ pc' = "tg_send"
    /\ UNCHANGED << configVars, navVars, parseVars, status_written, status >>

\* mutant: the loop is left at the first delivery that fails
TgSend_StopOnFailure ==
    /\ pc = "tg_send"
    /\ tg.i <= Len(tg.chat_ids)
    /\ \E ok \in BOOLEAN :
         LET results == Append(tg.results, [chat_id |-> tg.chat_ids[tg.i], ok |-> ok])
             last == tg.i = Len(tg.chat_ids) \/ ~ok
         IN /\ tg' = [tg EXCEPT !.results = results, !.sent = @ + 1, !.i = @ + 1,
                                !.rc = IF last THEN ExitCode(results) ELSE @]
            /\ pc' = IF last THEN "tg_end" ELSE "tg_send"
    /\ UNCHANGED << configVars, navVars, parseVars, status_written, status >>

\* for chat_id in CHAT_IDS: send_message, which never raises; after the
\* last one the results are persisted and the exit code is set
TgSend ==
    /\ pc = "tg_send"
    /\ tg.i <= Len(tg.chat_ids)
    /\ \E ok \in BOOLEAN :
         LET results == Append(tg.results, [chat_id |-> tg.chat_ids[tg.i], ok |-> ok])
             last == tg.i = Len(tg.chat_ids)
         IN /\ tg' = [tg EXCEPT !.results = results, !.sent = @ + 1, !.i = @ + 1,
                                !.rc = IF last THEN ExitCode(results) ELSE @]
            /\ pc' = IF last THEN "tg_end" ELSE "tg_send"
    /\ UNCHANGED << configVars, navVars, parseVars, status_written, status >>

(* --------------------------- specifications ---------------------------- *)

Next ==
    \/ DirectAttempt
    \/ IndexAttempt
    \/ ViaIndex
    \/ ProbeLogin
    \/ LoginPost
    \/ FinalAttempt
    \/ CrawlVisit
    \/ ParseStart
    \/ NoHtml
    \/ RowStep
    \/ Decide
    \/ TgStart
    \/ TgSend

\* one run of the monitor followed by the notifier
Spec == Init /\ [][Next]_vars

\* The run is a sequential program: it takes its next step while it has one
\* (every request has a timeout, every loop a bound).  One configuration.
InitLive ==
    InitWith({"false"}, {DEFAULT_THRESHOLD}, { [wd |-> 6, day |-> 0, tod |-> 72030] },
             {"chain"})

FairSpec == InitLive /\ [][Next]_vars /\ WF_vars(Next)

\* the navigator on every site shape, under one configuration
InitNav ==
    InitWith({"false"}, {DEFAULT_THRESHOLD}, { [wd |-> 6, day |-> 0, tod |-> 72030] }, Sites)

SpecNav == InitNav /\ [][Next]_vars

\* The documents given to parse_worklist_counts: one table with a header
\* row and up to MaxRows sample rows; and the documents of up to three of
\* the sample tables.
ParseHeaders == { Row(HdrGood), ThRow(HdrGood), Row(HdrWeak), Row(HdrStudyFirst) }

SampleTables == { WorklistTable, WeakTable, CompletedTable, PlainTable, BigTable }

ParseDocs ==
    { Page(<<>>, FALSE, FALSE, << TableOf(h, rows) >>) :
        h \in ParseHeaders, rows \in SeqsUpTo(SampleRows, MaxRows) }
    \cup { Page(<<>>, FALSE, FALSE, ts) : ts \in SeqsUpTo(SampleTables, 3) \ { <<>> } }

\* main() at the call of parse_worklist_counts(html, now_local, tz)
InitParse ==
    /\ pc = "fetched"
    /\ html \in ParseDocs
    /\ force_alert = FALSE
    /\ threshold = DEFAULT_THRESHOLD
    /\ now = [wd |-> 6, day |-> 0, tod |-> 72030]
    /\ allowed = allowed_window(now)
    /\ site = "none"
    /\ nav = NavInit
    /\ nav_exit = [how |-> "return", at |-> "wl_direct"]
    /\ diag = {"page"}
    /\ errors = <<>>
    /\ parse = ParseInit
    /\ counts = ZeroCounts
    /\ rows_seen = 0
    /\ considered = 0
    /\ perrors = <<>>
    /\ included_rows = <<>>
    /\ status_written = FALSE
    /\ status = StatusInit
    /\ last_fetch = NoFetch
    /\ tg = TgInit

NextParse == ParseStart \/ RowStep

\* parse_worklist_counts on the generated documents
SpecParse == InitParse /\ [][NextParse]_vars

(* ------------------------------- claims -------------------------------- *)

\* the run has ended with acquisition failed: no HTML reached main
AcquisitionFailed == pc \in {"decide", "done", "tg_send", "tg_end"} /\ IsEmptyHtml(html)

\* C1: the alert decision written to the status equals
\* forceFlag OR (windowAllowed AND count60 + count90 + count120 >= threshold).
C1_AlertDecision ==
    status_written =>
        /\ status.total = status.counts["60"] + status.counts["90"] + status.counts["120"]
        /\ status.alert_triggered =
             (force_alert \/ (allowed /\ status.total >= threshold))

\* scenario C: threshold 20, total 25, window disallowed, no force: no alert
C1_Witness ==
    /\ status_written
    /\ threshold = 20
    /\ status.total = 25
    /\ ~allowed
    /\ ~force_alert
    /\ ~status.alert_triggered

\* C2 as claimed: in every run where acquisition fails, for every configuration,
\* the status has alert_triggered = false and the notifier sends nothing.
C2_Original ==
    (status_written /\ AcquisitionFailed) =>
        (~status.alert_triggered /\ tg.sent = 0)

\* C2 amended: in every run where acquisition fails, with the monitor's force
\* flag off and a threshold of at least 1, the status has alert_triggered =
\* false, and the notifier sends nothing unless its own FORCE_ALERT is on.
C2_FailedRunNoAlert ==
    (status_written /\ AcquisitionFailed /\ ~force_alert /\ threshold >= 1) =>
        /\ ~status.alert_triggered
        /\ (~tg.force => tg.sent = 0)

\* a failed run inside the allowed window, the notifier configured and done
C2_Witness ==
    /\ pc = "tg_end"
    /\ AcquisitionFailed
    /\ nav_exit.how = "raise"
    /\ ~force_alert /\ threshold >= 1 /\ allowed
    /\ tg.token /\ tg.chat_ids # <<>> /\ ~tg.force
    /\ ~status.alert_triggered
    /\ tg.sent = 0

\* C3: every run of main eventually writes a result; on total failure the
\* result has all-zero counts and a non-empty error list; and no run is past
\* the write without the result written.
C3_AlwaysResult ==
    /\ <>status_written
    /\ [](status_written /\ AcquisitionFailed =>
            status.counts = ZeroCounts /\ status.errors # <<>>)
    /\ [](pc \notin {"wl_direct", "index", "via_index", "probe", "post", "wl_final",
                     "crawl", "fetched", "rows", "decide"} => status_written)

\* a run whose first request raised has written the zero result
C3_Witness ==
    /\ status_written
    /\ nav_exit = [how |-> "raise", at |-> "wl_direct"]
    /\ status.counts = ZeroCounts
    /\ status.errors = <<FetchError, NoHtmlError>>

\* the column order of HdrGood is in use
GoodColumns == parse.cols = [date_i |-> 1, time_i |-> 2, study_i |-> 3]

\* counts after k mentions were added to bucket b
Added(c, b, k) == [x \in {"60", "90", "120"} |-> IF x = b THEN c[x] + k ELSE c[x]]

\* C4: for every qualifying row (a CT/MR mention, a parseable timestamp) the
\* age is floor(elapsed seconds / 60); an age below 60 adds nothing to any
\* bucket, 60..89 adds the mentions to B60, 90..119 to B90, 120 and more to
\* B120; the rows aged 59, 60, 89, 90, 119, 120 and 10000 minutes fall as
\* discarded, B60, B60, B90, B90, B120, B120.
C4_BucketByAge ==
    [][ (pc = "rows" /\ parse'.last.parsed) =>
          LET e == parse'.last
              row == parse.table[parse.ri]
              m == e.minutes
          IN /\ e.inc >= 1
             /\ m * 60 <= e.elapsed /\ e.elapsed < m * 60 + 60
             /\ (m < 60) => (counts' = counts /\ included_rows' = included_rows)
             /\ (60 <= m /\ m <= 89) => counts' = Added(counts, "60", e.inc)
             /\ (90 <= m /\ m <= 119) => counts' = Added(counts, "90", e.inc)
             /\ (120 <= m) => counts' = Added(counts, "120", e.inc)
             /\ (GoodColumns /\ row \in {RowCT59, RowCT59s, RowFuture}) => m < 60
             /\ (GoodColumns /\ row = RowCT59) => m = 59
             /\ (GoodColumns /\ row \in {RowCT60, RowCT60s}) =>
                    (m = 60 /\ counts' = Added(counts, "60", 1))
             /\ (GoodColumns /\ row = RowCTMRI89) =>
                    (m = 89 /\ counts' = Added(counts, "60", 2))
             /\ (GoodColumns /\ row = RowCT90) =>
                    (m = 90 /\ counts' = Added(counts, "90", 1))
             /\ (GoodColumns /\ row = RowMR119) =>
                    (m = 119 /\ counts' = Added(counts, "90", 2))
             /\ (GoodColumns /\ row = RowMRI120) =>
                    (m = 120 /\ counts' = Added(counts, "120", 3))
             /\ (GoodColumns /\ row = RowOld) =>
                    (m = 10000 /\ counts' = Added(counts, "120", 1))
      ]_vars

\* rows aged 119 and 90 minutes have both gone to B90
C4_Witness ==
    /\ pc = "decide"
    /\ parse.table = TableOf(Row(HdrGood), << RowCT90, RowMR119 >>)
    /\ parse.last.minutes = 119
    /\ parse.last.bucket = "90"
    /\ counts = [b \in {"60", "90", "120"} |-> IF b = "90" THEN 3 ELSE 0]

\* the rows the loop has been through
RowsDone == SubSeq(parse.table, 1, parse.ri - 1)

\* the mentions of those of the rows whose age falls in bucket b
RECURSIVE MentionsIn(_, _)
MentionsIn(rows, b) ==
    IF rows = <<>> THEN 0
    ELSE LET e == RowEffect(Head(rows), parse.cols, NowAt(now))
         IN (IF e.bucket = b THEN e.inc ELSE 0) + MentionsIn(Tail(rows), b)

\* the same sum over the records kept in included_rows
RECURSIVE RecordedIn(_, _)
RecordedIn(recs, b) ==
    IF recs = <<>> THEN 0
    ELSE (IF Head(recs).bucket = b THEN Head(recs).ct_mr_count_in_row ELSE 0)
         + RecordedIn(Tail(recs), b)

\* C5: after any sequence of rows, each bucket count is the sum of the
\* mention counts of the non-discarded rows whose age falls in that bucket,
\* and considered is the sum of the three bucket counts.
C5_CountsAreSums ==
    (pc \in {"rows", "decide"}) =>
        /\ \A b \in {"60", "90", "120"} :
              /\ counts[b] = MentionsIn(RowsDone, b)
              /\ counts[b] = RecordedIn(included_rows, b)
        /\ considered = counts["60"] + counts["90"] + counts["120"]

\* scenario B with a second row: "CT, MRI brain" adds 2 to B60 alone, and a
\* row of 3 mentions aged 120 minutes adds 3 to B120
C5_Witness ==
    /\ pc = "decide"
    /\ parse.table = TableOf(Row(HdrGood), << RowCTMRI89, RowMRI120 >>)
    /\ counts = [b \in {"60", "90", "120"} |->
                    IF b = "60" THEN 2 ELSE IF b = "120" THEN 3 ELSE 0]
    /\ considered = 5

\* C6: rows_seen is the number of rows gone through that have no th cell
\* and at least 5 cells, whether or not the row was then discarded.
C6_RowsSeen ==
    (pc \in {"rows", "decide"}) =>
        rows_seen = Cardinality({ r \in 1..(parse.ri - 1) :
                                    /\ parse.table[r].nth = 0
                                    /\ Len(parse.table[r].cells) >= 5 })

\* a th header row, a row without CT/MR and a row aged 59 minutes: the two
\* discarded rows are counted, the header row is not
C6_Witness ==
    /\ pc = "decide"
    /\ parse.table = TableOf(ThRow(HdrGood), << RowCTA, RowCT59 >>)
    /\ rows_seen = 2
    /\ counts = ZeroCounts

\* C7: the table _find_worklist_table returns is a table of the document
\* whose full text holds neither "Report Out Time" nor "Completed Studies".
C7_ExclusionOverrides ==
    (pc \in {"rows", "decide"} /\ parse.table # <<>>) =>
        /\ \E i \in 1..Len(html.tables) : html.tables[i] = parse.table
        /\ ~Contains(RowsText(parse.table), <<"Report", "Out", "Time">>)
        /\ ~Contains(RowsText(parse.table), <<"Completed", "Studies">>)

\* the completed-studies table comes first and has the strong phrase in
\* its header; the table after it is the one returned
C7_Witness ==
    /\ pc = "rows"
    /\ html.tables = << CompletedTable, WorklistTable >>
    /\ Contains(Joined(_header_cells(CompletedTable[1])), <<"Study", "Requested">>)
    /\ parse.table = WorklistTable

\* a header row passes scoring: the strong phrase, or a study word together
\* with a date or time word
HeaderScores(hdr) ==
    \/ Contains(Joined(hdr), <<"Study", "Requested">>)
    \/ /\ ContainsAny(Joined(hdr), STUDY_HEADERS)
       /\ ContainsAny(Joined(hdr), DATE_HEADERS \o TIME_HEADERS)

\* no table of the document passes exclusion and scoring
NoQualifyingTable(p) ==
    \A i \in 1..Len(p.tables) :
        \/ TableExcluded(p.tables[i])
        \/ \A h \in 1..Len(_table_header_candidates(p.tables[i])) :
              ~HeaderScores(_table_header_candidates(p.tables[i])[h])

\* C8: when a document was fetched and none of its tables passes exclusion
\* and scoring, the result written has all-zero counts, rows_seen = 0, the
\* table-not-found entry in its error list, total = 0 and the alert decision
\* taken on that total.
C8_NoTableZeroResult ==
    (status_written /\ ~IsEmptyHtml(html) /\ NoQualifyingTable(html)) =>
        /\ status.counts = ZeroCounts
        /\ status.rows_seen = 0
        /\ status.ctmr_considered = 0
        /\ \E i \in 1..Len(status.errors) : status.errors[i] = NoTableError
        /\ status.total = 0
        /\ status.alert_triggered = (force_alert \/ (allowed /\ 0 >= threshold))

\* the page with the worklist headings outside any table: the run went on
\* to the decision, here without an alert
C8_Witness ==
    /\ status_written
    /\ html = PageNoTable
    /\ NoQualifyingTable(html)
    /\ status.errors = <<NoTableError>>
    /\ status.total = 0
    /\ threshold = DEFAULT_THRESHOLD /\ allowed
    /\ ~status.alert_triggered

\* C9 as claimed: the discovery crawl makes at most 60 requests for pages
\* and holds no page at a link depth above 3.
C9_CrawlBounded ==
    (pc = "crawl") =>
        /\ nav.crawl_gets <= max_visits
        /\ \A i \in 1..Len(nav.q) : nav.q[i].depth <= max_depth

\* the first request raises: acquisition has ended with strategies untried
EndedAtFirstFailure ==
    /\ nav_exit = [how |-> "raise", at |-> "wl_direct"]
    /\ errors = <<FetchError>>

NavPcs == {"wl_direct", "index", "via_index", "probe", "post", "wl_final", "crawl"}

C11_EveryFetchReported ==
    /\ [][ (pc \in NavPcs) =>
             LET f == last_fetch'
                 n == Len(f.dumps)
             IN /\ f.gets >= 1
                /\ n = f.gets
                /\ \A i \in 1..n : f.dumps[i] \in diag'
                /\ \A i \in 1..(n - 1) : f.dumps[i] = "page"
                /\ f.raised <=> (f.dumps[n] = "exception")
                /\ (~f.raised) => f.dumps[n] = (IF n = 1 THEN "page" ELSE "redirect")
                /\ f.raised <=> (nav_exit'.how = "raise" /\ errors' = <<FetchError>>)
                /\ (pc = "crawl" /\ pc' = "crawl") =>
                       nav'.crawl_gets = nav.crawl_gets + f.gets
                /\ diag \subseteq diag'
         ]_vars
    /\ []((pc \notin NavPcs /\ (nav_exit.how = "raise" \/ IsEmptyHtml(html))) =>
             diag # {})

\* a page with a redirect was dumped, the follow-up GET raised and was
\* dumped as an exception, and the run has ended with a failure result
C11_Witness ==
    /\ status_written
    /\ AcquisitionFailed
    /\ last_fetch = [raised |-> TRUE, gets |-> 2, dumps |-> <<"page", "exception">>]
    /\ {"page", "exception"} \subseteq diag
    /\ nav_exit.how = "raise"

\* the notifier got past its gate: it is configured and has something to send
TgSending == tg.token /\ tg.chat_ids # <<>> /\ (tg.alert \/ tg.force)

StrongTable(t) ==
    /\ ~TableExcluded(t)
    /\ \E h \in 1..Len(_table_header_candidates(t)) :
          Contains(Joined(_table_header_candidates(t)[h]), <<"Study", "Requested">>)

\* a non-excluded table with a header-row candidate that passes both weak
\* checks: a study keyword and a date or time keyword
WeakTableOk(t) ==
    /\ ~TableExcluded(t)
    /\ \E h \in 1..Len(_table_header_candidates(t)) :
          /\ ContainsAny(Joined(_table_header_candidates(t)[h]), STUDY_HEADERS)
          /\ ContainsAny(Joined(_table_header_candidates(t)[h]),
                         DATE_HEADERS \o TIME_HEADERS)

\* the least member of a non-empty set of positions
Least(S) == CHOOSE i \in S : \A j \in S : i <= j

\* the table the selection rule names: the first strong table, else the
\* first table passing both weak checks, else none (the empty table)
SelectedByRule(p) ==
    LET strong == { i \in 1..Len(p.tables) : StrongTable(p.tables[i]) }
        weak == { i \in 1..Len(p.tables) : WeakTableOk(p.tables[i]) }
    IN IF strong # {} THEN p.tables[Least(strong)]
       ELSE IF weak # {} THEN p.tables[Least(weak)]
       ELSE <<>>

C14_ReturnedQualifies ==
    (nav_exit.how = "return") => looks_like_worklist(html)

====
